---- MODULE Spec2Model ----
(***************************************************************************)
(* The BBS proxy of src/main.py: four FastAPI routes that forward a        *)
(* browser request to the external BBS API with requests, and translate    *)
(* the outcome of the call into the response sent back to the browser.     *)
(*                                                                         *)
(* Texts are sequences of Unicode code points and bodies on the wire are   *)
(* sequences of bytes, so that decoding, JSON parsing, JSON serialising    *)
(* and the f-string that builds the error body are computed, not assumed.  *)
(***************************************************************************)
EXTENDS Integers, Sequences, FiniteSets, TLC

(***************************************************************************)
(* Bytes and text                                                          *)
(***************************************************************************)

\* str.encode("utf-8") of one code point (Starlette's Response.render and
\* JSONResponse.render encode the content with charset utf-8).
EncodeCp(c) ==
    IF c < 128 THEN <<c>>
    ELSE IF c < 2048 THEN <<192 + (c \div 64), 128 + (c % 64)>>
    ELSE <<224 + (c \div 4096), 128 + ((c \div 64) % 64), 128 + (c % 64)>>

RECURSIVE EncodeUtf8(_)
EncodeUtf8(text) ==
    IF text = <<>> THEN <<>>
    ELSE EncodeCp(Head(text)) \o EncodeUtf8(Tail(text))

IsCont(b) == b >= 128 /\ b <= 191

\* bytes.decode("utf-8", errors="replace"), for sequences of up to three
\* bytes: a byte that starts no valid sequence becomes U+FFFD.
RECURSIVE DecodeUtf8(_)
DecodeUtf8(bytes) ==
    IF bytes = <<>> THEN <<>>
    ELSE LET b == Head(bytes)
             n == Len(bytes)
         IN  IF b < 128 THEN <<b>> \o DecodeUtf8(Tail(bytes))
             ELSE IF b >= 194 /\ b <= 223 /\ n >= 2 /\ IsCont(bytes[2])
                  THEN <<(b - 192) * 64 + (bytes[2] - 128)>>
                       \o DecodeUtf8(SubSeq(bytes, 3, n))
             ELSE IF b >= 224 /\ b <= 239 /\ n >= 3
                     /\ IsCont(bytes[2]) /\ IsCont(bytes[3])
                  THEN <<(b - 224) * 4096 + (bytes[2] - 128) * 64 + (bytes[3] - 128)>>
                       \o DecodeUtf8(SubSeq(bytes, 4, n))
             ELSE <<65533>> \o DecodeUtf8(Tail(bytes))

\* requests' Response.text: the content decoded with the encoding requests
\* resolved for the response (ISO-8859-1 maps every byte to its code point).
ResponseText(r) ==
    IF r.encoding = "utf-8" THEN DecodeUtf8(r.content) ELSE r.content

(***************************************************************************)
(* JSON values: [t |-> tag, v |-> payload].  An object is the sequence of  *)
(* its <<key, value>> pairs in insertion order, as a Python dict.          *)
(***************************************************************************)

JNull == [t |-> "null", v |-> <<>>]
JBool(b) == [t |-> "bool", v |-> b]
JNum(n) == [t |-> "num", v |-> n]
JStr(s) == [t |-> "str", v |-> s]
JArr(xs) == [t |-> "arr", v |-> xs]
JObj(ps) == [t |-> "obj", v |-> ps]

\* dict[k] = v: an existing key keeps its place and takes the new value.
DictSet(ps, k, v) ==
    IF \E n \in 1..Len(ps) : ps[n][1] = k
    THEN [n \in 1..Len(ps) |-> IF ps[n][1] = k THEN <<k, v>> ELSE ps[n]]
    ELSE Append(ps, <<k, v>>)

HasKey(d, k) == d.t = "obj" /\ \E n \in 1..Len(d.v) : d.v[n][1] = k

Lookup(d, k) == d.v[CHOOSE n \in 1..Len(d.v) : d.v[n][1] = k][2]

\* json.loads, as requests' Response.json() and Starlette's Request.json()
\* call it: integers, strings with the escapes \" \\ \/ \n \t \r, the three
\* literals, arrays and objects.  A result is [ok, val, next].
JFail == [ok |-> FALSE, val |-> JNull, next |-> 0]

JsonWs == {32, 9, 10, 13}

RECURSIVE SkipWs(_, _)
SkipWs(s, i) ==
    IF i <= Len(s) /\ s[i] \in JsonWs THEN SkipWs(s, i + 1) ELSE i

Unescape(c) ==
    CASE c = 110 -> 10
      [] c = 116 -> 9
      [] c = 114 -> 13
      [] OTHER -> c

RECURSIVE ScanString(_, _, _)
ScanString(s, i, acc) ==
    IF i > Len(s) THEN JFail
    ELSE IF s[i] = 34 THEN [ok |-> TRUE, val |-> JStr(acc), next |-> i + 1]
    ELSE IF s[i] = 92
         THEN IF i + 1 <= Len(s) /\ s[i + 1] \in {34, 92, 47, 110, 116, 114}
              THEN ScanString(s, i + 2, Append(acc, Unescape(s[i + 1])))
              ELSE JFail
    ELSE IF s[i] < 32 THEN JFail
    ELSE ScanString(s, i + 1, Append(acc, s[i]))

IsDigit(c) == c >= 48 /\ c <= 57

RECURSIVE ScanDigits(_, _, _)
ScanDigits(s, i, acc) ==
    IF i <= Len(s) /\ IsDigit(s[i])
    THEN ScanDigits(s, i + 1, acc * 10 + (s[i] - 48))
    ELSE [ok |-> TRUE, val |-> JNum(acc), next |-> i]

ScanNumber(s, i) ==
    IF s[i] = 48 THEN [ok |-> TRUE, val |-> JNum(0), next |-> i + 1]
    ELSE ScanDigits(s, i, 0)

ScanLiteral(s, i, word, val) ==
    IF i + Len(word) - 1 <= Len(s) /\ SubSeq(s, i, i + Len(word) - 1) = word
    THEN [ok |-> TRUE, val |-> val, next |-> i + Len(word)]
    ELSE JFail

RECURSIVE ParseValue(_, _)
RECURSIVE ParseElems(_, _, _)
RECURSIVE ParseMembers(_, _, _)

ParseValue(s, i0) ==
    LET i == SkipWs(s, i0)
    IN  IF i > Len(s) THEN JFail
        ELSE IF s[i] = 34 THEN ScanString(s, i + 1, <<>>)
        ELSE IF IsDigit(s[i]) THEN ScanNumber(s, i)
        ELSE IF s[i] = 116 THEN ScanLiteral(s, i, <<116, 114, 117, 101>>, JBool(TRUE))
        ELSE IF s[i] = 102
             THEN ScanLiteral(s, i, <<102, 97, 108, 115, 101>>, JBool(FALSE))
        ELSE IF s[i] = 110 THEN ScanLiteral(s, i, <<110, 117, 108, 108>>, JNull)
        ELSE IF s[i] = 91
             THEN LET j == SkipWs(s, i + 1)
                  IN  IF j <= Len(s) /\ s[j] = 93
                      THEN [ok |-> TRUE, val |-> JArr(<<>>), next |-> j + 1]
                      ELSE ParseElems(s, j, <<>>)
        ELSE IF s[i] = 123
             THEN LET j == SkipWs(s, i + 1)
                  IN  IF j <= Len(s) /\ s[j] = 125
                      THEN [ok |-> TRUE, val |-> JObj(<<>>), next |-> j + 1]
                      ELSE ParseMembers(s, j, <<>>)
        ELSE JFail

ParseElems(s, i, acc) ==
    LET e == ParseValue(s, i)
    IN  IF ~e.ok THEN JFail
        ELSE LET j == SkipWs(s, e.next)
             IN  IF j > Len(s) THEN JFail
                 ELSE IF s[j] = 44 THEN ParseElems(s, j + 1, Append(acc, e.val))
                 ELSE IF s[j] = 93
                      THEN [ok |-> TRUE, val |-> JArr(Append(acc, e.val)), next |-> j + 1]
                 ELSE JFail

ParseMembers(s, i0, acc) ==
    LET i == SkipWs(s, i0)
    IN  IF i > Len(s) \/ s[i] # 34 THEN JFail
        ELSE LET k == ScanString(s, i + 1, <<>>)
             IN  IF ~k.ok THEN JFail
                 ELSE LET c == SkipWs(s, k.next)
                      IN  IF c > Len(s) \/ s[c] # 58 THEN JFail
                          ELSE LET e == ParseValue(s, c + 1)
                               IN  IF ~e.ok THEN JFail
                                   ELSE LET j == SkipWs(s, e.next)
                                            d == DictSet(acc, k.val.v, e.val)
                                        IN  IF j > Len(s) THEN JFail
                                            ELSE IF s[j] = 44
                                                 THEN ParseMembers(s, j + 1, d)
                                            ELSE IF s[j] = 125
                                                 THEN [ok |-> TRUE, val |-> JObj(d),
                                                       next |-> j + 1]
                                            ELSE JFail

ParseJson(s) ==
    LET r == ParseValue(s, 1)
    IN  IF r.ok /\ SkipWs(s, r.next) = Len(s) + 1 THEN r ELSE JFail

\* json.dumps(content, ensure_ascii=False, separators=(",", ":")), the
\* rendering of a handler's return value by FastAPI's JSONResponse.
EscapeCp(c) ==
    CASE c = 34 -> <<92, 34>>
      [] c = 92 -> <<92, 92>>
      [] c = 10 -> <<92, 110>>
      [] c = 9 -> <<92, 116>>
      [] c = 13 -> <<92, 114>>
      [] OTHER -> <<c>>

RECURSIVE EscapeText(_)
EscapeText(s) ==
    IF s = <<>> THEN <<>> ELSE EscapeCp(Head(s)) \o EscapeText(Tail(s))

RECURSIVE Digits(_)
Digits(n) ==
    IF n < 10 THEN <<48 + n>> ELSE Digits(n \div 10) \o <<48 + (n % 10)>>

RECURSIVE Dumps(_)
RECURSIVE DumpsElems(_, _)
RECURSIVE DumpsMembers(_, _)

Dumps(x) ==
    CASE x.t = "null" -> <<110, 117, 108, 108>>
      [] x.t = "bool" -> IF x.v THEN <<116, 114, 117, 101>> ELSE <<102, 97, 108, 115, 101>>
      [] x.t = "num" -> Digits(x.v)
      [] x.t = "str" -> <<34>> \o EscapeText(x.v) \o <<34>>
      [] x.t = "arr" -> <<91>> \o DumpsElems(x.v, 1) \o <<93>>
      [] x.t = "obj" -> <<123>> \o DumpsMembers(x.v, 1) \o <<125>>

DumpsElems(xs, n) ==
    IF n > Len(xs) THEN <<>>
    ELSE (IF n > 1 THEN <<44>> ELSE <<>>) \o Dumps(xs[n]) \o DumpsElems(xs, n + 1)

DumpsMembers(ps, n) ==
    IF n > Len(ps) THEN <<>>
    ELSE (IF n > 1 THEN <<44>> ELSE <<>>)
         \o <<34>> \o EscapeText(ps[n][1]) \o <<34, 58>> \o Dumps(ps[n][2])
         \o DumpsMembers(ps, n + 1)

(***************************************************************************)
(* Python values                                                           *)
(***************************************************************************)

\* bool(x) of a value json.loads produced.
Truthy(x) ==
    CASE x.t = "null" -> FALSE
      [] x.t = "bool" -> x.v
      [] x.t = "num" -> x.v # 0
      [] OTHER -> Len(x.v) > 0

\* type(x).__name__
TypeName(x) ==
    CASE x.t = "null" -> <<78, 111, 110, 101, 84, 121, 112, 101>>
      [] x.t = "bool" -> <<98, 111, 111, 108>>
      [] x.t = "num" -> <<105, 110, 116>>
      [] x.t = "str" -> <<115, 116, 114>>
      [] x.t = "arr" -> <<108, 105, 115, 116>>
      [] x.t = "obj" -> <<100, 105, 99, 116>>

\* The code points str.strip() removes.
PyWhitespace ==
    {9, 10, 11, 12, 13, 28, 29, 30, 31, 32, 133, 160, 5760, 8232, 8233, 8239, 8287, 12288}
    \cup (8192..8202)

RECURSIVE LStrip(_)
LStrip(s) ==
    IF s # <<>> /\ Head(s) \in PyWhitespace THEN LStrip(Tail(s)) ELSE s

RECURSIVE RStrip(_)
RStrip(s) ==
    IF s # <<>> /\ s[Len(s)] \in PyWhitespace THEN RStrip(SubSeq(s, 1, Len(s) - 1)) ELSE s

\* The body taken as it came, not stripped.
Strip_none(s) == s

Strip(s) == RStrip(LStrip(s))

\* Exceptions are [kind, text], text being str(e).
NoExc == [kind |-> "", text |-> <<>>]

\* "'<type>' object has no attribute '<attr>'"
AttributeError(x, attr) ==
    [kind |-> "AttributeError",
     text |-> <<39>> \o TypeName(x)
              \o <<39, 32, 111, 98, 106, 101, 99, 116, 32, 104, 97, 115, 32, 110, 111,
                   32, 97, 116, 116, 114, 105, 98, 117, 116, 101, 32, 39>>
              \o attr \o <<39>>]

\* "Expecting value: line 1 column 1 (char 0)"
JSONDecodeError ==
    [kind |-> "JSONDecodeError",
     text |-> <<69, 120, 112, 101, 99, 116, 105, 110, 103, 32, 118, 97, 108, 117, 101,
                58, 32, 108, 105, 110, 101, 32, 49, 32, 99, 111, 108, 117, 109, 110, 32,
                49, 32, 40, 99, 104, 97, 114, 32, 48, 41>>]

K_username == <<117, 115, 101, 114, 110, 97, 109, 101>>
K_password == <<112, 97, 115, 115, 119, 111, 114, 100>>
K_body == <<98, 111, 100, 121>>
K_detail == <<100, 101, 116, 97, 105, 108>>
A_get == <<103, 101, 116>>
A_strip == <<115, 116, 114, 105, 112>>

\* dict.get(key, default)
Get(d, k, default) == IF HasKey(d, k) THEN Lookup(d, k) ELSE default

(***************************************************************************)
(* The upstream client                                                     *)
(***************************************************************************)

BBS_EXTERNAL_API_BASE_URL == "https://bbs-server.vercel.app"

MAX_API_WAIT_TIME == <<3, 8>>

get_user_agent ==
    [h \in {"User-Agent"} |->
        "Mozilla/5.0 (Windows NT 10.0; Win64; x64) AppleWebKit/537.36 (KHTML, like Gecko) Chrome/120.0 Safari/537.36"]

\* The outbound calls: [method, url, headers, json, timeout].
fetch_bbs_posts ==
    [method |-> "GET", url |-> <<BBS_EXTERNAL_API_BASE_URL, "/posts">>,
     headers |-> get_user_agent, json |-> JNull, timeout |-> MAX_API_WAIT_TIME]

post_new_message(username, password, body) ==
    [method |-> "POST", url |-> <<BBS_EXTERNAL_API_BASE_URL, "/post">>,
     headers |-> get_user_agent,
     json |-> JObj(<<<<K_username, username>>, <<K_password, password>>, <<K_body, body>>>>),
     timeout |-> MAX_API_WAIT_TIME]

login_user(username, password) ==
    [method |-> "POST", url |-> <<BBS_EXTERNAL_API_BASE_URL, "/login">>,
     headers |-> get_user_agent,
     json |-> JObj(<<<<K_username, username>>, <<K_password, password>>>>),
     timeout |-> MAX_API_WAIT_TIME]

register_user(username, password) ==
    [method |-> "POST", url |-> <<BBS_EXTERNAL_API_BASE_URL, "/register">>,
     headers |-> get_user_agent,
     json |-> JObj(<<<<K_username, username>>, <<K_password, password>>>>),
     timeout |-> MAX_API_WAIT_TIME]

\* What a handler has in hand once its call is over: the parsed body, the
\* HTTPError with its response, or another exception.
NoResp == [status |-> 0, encoding |-> "utf-8", content |-> <<>>]
NoOutcome == [kind |-> "none", val |-> JNull, resp |-> NoResp, exc |-> NoExc]
Returned(j) == [kind |-> "json", val |-> j, resp |-> NoResp, exc |-> NoExc]
HTTPError(r) == [kind |-> "http_error", val |-> JNull, resp |-> r, exc |-> NoExc]
Raised(e) == [kind |-> "exception", val |-> JNull, resp |-> NoResp, exc |-> e]

\* requests' Response.raise_for_status(): raises for 4xx and 5xx.
RaisesForStatus(r) == r.status >= 400 /\ r.status < 600

(***************************************************************************)
(* Inputs                                                                  *)
(***************************************************************************)

\* The number of inbound requests handled concurrently.
NumReq == 2

Requests == 1..NumReq

\* The request followed alone through every input.
Lone == {1}

Ops == {"list_posts", "create_post", "login", "register"}

T_u == <<117>>
T_p == <<112>>
T_hi == <<32, 104, 105, 32>>

\* A field is absent (<<>>) or present with a value (<<v>>).
Payload(u, p, b) ==
    JObj((IF u = <<>> THEN <<>> ELSE <<<<K_username, u[1]>>>>)
         \o (IF p = <<>> THEN <<>> ELSE <<<<K_password, p[1]>>>>)
         \o (IF b = <<>> THEN <<>> ELSE <<<<K_body, b[1]>>>>))

UsernameFields == {<<>>, <<JStr(<<>>)>>, <<JStr(T_u)>>, <<JNum(7)>>}
PasswordFields == {<<>>, <<JStr(<<>>)>>, <<JStr(T_p)>>}
BodyFields ==
    {<<>>, <<JStr(<<>>)>>, <<JStr(<<32, 32>>)>>, <<JStr(<<9, 12288, 10>>)>>,
     <<JStr(T_hi)>>, <<JNum(5)>>, <<JNull>>}

\* Request bodies that are no JSON object: no JSON at all, empty, an array.
NonObjects == {<<60, 104, 116, 109, 108, 62>>, <<>>, <<91, 93>>}

PostBodies ==
    {EncodeUtf8(Dumps(Payload(u, p, b))) :
        u \in UsernameFields, p \in PasswordFields, b \in BodyFields}
    \cup NonObjects

AuthBodies ==
    {EncodeUtf8(Dumps(Payload(u, p, <<>>))) :
        u \in {<<>>, <<JStr(T_u)>>}, p \in {<<JStr(<<>>)>>, <<JStr(T_p)>>}}
    \cup NonObjects

\* json.loads of every request body, computed once.
Parsed == [b \in PostBodies \cup AuthBodies |-> ParseJson(DecodeUtf8(b))]

\* await req.json()
ReqJson(b) == Parsed[b]

BodiesFor(o) ==
    CASE o = "list_posts" -> {<<>>}
      [] o = "create_post" -> PostBodies
      [] OTHER -> AuthBodies

\* The proxy headers and the socket peer of an inbound request.
InHeaders ==
    {[xoci |-> <<"1.2.3.4">>, xff |-> <<"9.9.9.9">>, peer |-> <<"10.0.0.1">>],
     [xoci |-> <<>>, xff |-> <<"9.9.9.9", "8.8.8.8">>, peer |-> <<"10.0.0.1">>],
     [xoci |-> <<>>, xff |-> <<>>, peer |-> <<"10.0.0.1">>],
     [xoci |-> <<>>, xff |-> <<>>, peer |-> <<>>]}

\* Upstream answers: a status, and a body with the encoding requests
\* resolves for it.
Statuses == {200, 201, 204, 304, 401, 404, 500}

UpstreamBodies ==
    {[encoding |-> "utf-8", content |-> <<123, 34, 111, 107, 34, 58, 49, 125>>],
     [encoding |-> "utf-8",
      content |-> <<123, 32, 34, 111, 107, 34, 32, 58, 32, 49, 32, 125>>],
     [encoding |-> "utf-8",
      content |-> <<91, 123, 34, 98, 111, 100, 121, 34, 58, 34, 97, 92, 34, 98, 34,
                    125, 93>>],
     [encoding |-> "utf-8", content |-> <<34, 195, 169, 34>>],
     [encoding |-> "utf-8",
      content |-> <<123, 34, 100, 101, 116, 97, 105, 108, 34, 58, 34, 110, 111, 34, 125>>],
     [encoding |-> "utf-8",
      content |-> <<123, 34, 101, 114, 114, 111, 114, 34, 58, 34, 120, 34, 125>>],
     [encoding |-> "utf-8", content |-> <<78, 111, 116, 32, 70, 111, 117, 110, 100>>],
     [encoding |-> "ISO-8859-1", content |-> <<34, 233, 34>>],
     [encoding |-> "utf-8", content |-> <<>>]}

UpstreamResponses ==
    {[status |-> s, encoding |-> b.encoding, content |-> b.content] :
        s \in Statuses, b \in UpstreamBodies}

\* Exceptions requests raises instead of returning a response.
UpstreamFailures ==
    {[kind |-> "ConnectionError",
      text |-> <<67, 111, 110, 110, 101, 99, 116, 105, 111, 110, 32, 114, 101, 102, 117,
                 115, 101, 100>>],
     [kind |-> "Timeout",
      text |-> <<82, 101, 97, 100, 32, 116, 105, 109, 101, 100, 32, 111, 117, 116, 46,
                 32, 40, 114, 101, 97, 100, 32, 116, 105, 109, 101, 111, 117, 116, 61,
                 56, 46, 48, 41>>],
     [kind |-> "SSLError",
      text |-> <<83, 83, 76, 69, 114, 114, 111, 114, 40, 34, 98, 97, 100, 32, 99, 101,
                 114, 116, 34, 41>>],
     [kind |-> "ProxyError", text |-> <<67, 58, 92, 120>>],
     [kind |-> "TooManyRedirects",
      text |-> <<69, 120, 99, 101, 101, 100, 101, 100, 32, 51, 48, 32, 114, 101, 100,
                 105, 114, 101, 99, 116, 115, 46>>]}

\* res.json() of every upstream response, computed once.
ResJson == [r \in UpstreamResponses |-> ParseJson(ResponseText(r))]

\* The rest of sync() once the upstream has answered r:
\* res.raise_for_status(); return res.json()
sync(r) ==
    IF RaisesForStatus(r) THEN HTTPError(r)
    ELSE IF ResJson[r].ok THEN Returned(ResJson[r].val) ELSE Raised(JSONDecodeError)

\* requests.exceptions: the transport failures (ConnectionError and its
\* subclasses SSLError and ProxyError, Timeout).
NetworkKinds == {"ConnectionError", "Timeout", "SSLError", "ProxyError"}

(***************************************************************************)
(* The handlers                                                            *)
(***************************************************************************)

\* The handler wraps what the upstream returned: {"posts": j}.
JsonResponse_wrapped(j) ==
    [status |-> 200, media_type |-> "application/json",
     body |-> EncodeUtf8(Dumps(JObj(<<<<(<<112, 111, 115, 116, 115>>), j>>>>)))]

\* Responses to the browser are [status, media_type, body], body in bytes.
\* A handler's return value is rendered by FastAPI as a JSON response, 200.
JsonResponse(j) ==
    [status |-> 200, media_type |-> "application/json", body |-> EncodeUtf8(Dumps(j))]

\* The upstream's error put in the proxy's own envelope, with status 500.
HttpErrorResponse_reshaped(r) ==
    [status |-> 500, media_type |-> "application/json",
     body |-> EncodeUtf8(<<123, 34, 100, 101, 116, 97, 105, 108, 34, 58, 34>>
                         \o ResponseText(r) \o <<34, 125>>)]

\* except requests.exceptions.HTTPError as e: the upstream's text and status.
HttpErrorResponse(r) ==
    [status |-> r.status, media_type |-> "application/json",
     body |-> EncodeUtf8(ResponseText(r))]

\* except Exception as e: f'{{"detail":"{str(e)}"}}' with status 500.
ErrorResponse(e) ==
    [status |-> 500, media_type |-> "application/json",
     body |-> EncodeUtf8(<<123, 34, 100, 101, 116, 97, 105, 108, 34, 58, 34>>
                         \o e.text \o <<34, 125>>)]

\* '{"detail":"username, password, body required"}' with status 400.
RequiredResponse ==
    [status |-> 400, media_type |-> "application/json",
     body |-> EncodeUtf8(<<123, 34, 100, 101, 116, 97, 105, 108, 34, 58, 34, 117, 115,
                           101, 114, 110, 97, 109, 101, 44, 32, 112, 97, 115, 115, 119,
                           111, 114, 100, 44, 32, 98, 111, 100, 121, 32, 114, 101, 113,
                           117, 105, 114, 101, 100, 34, 125>>)]

\* The return statement and the two except clauses of a handler.
Translate(o) ==
    CASE o.kind = "json" -> JsonResponse(o.val)
      [] o.kind = "http_error" -> HttpErrorResponse(o.resp)
      [] o.kind = "exception" -> ErrorResponse(o.exc)

\* What the body of a try block does before it awaits the upstream call:
\* issue a call, answer locally, or raise.
Forward(c) == [kind |-> "call", call |-> <<c>>, exc |-> NoExc]
Reject == [kind |-> "reject", call |-> <<>>, exc |-> NoExc]
Throw(e) == [kind |-> "raise", call |-> <<>>, exc |-> e]

\* api_post_message, from req.json() to the call of post_new_message.
PostMessageTry(b) ==
    LET r == ReqJson(b)
    IN  IF ~r.ok THEN Throw(JSONDecodeError)
        ELSE IF r.val.t # "obj" THEN Throw(AttributeError(r.val, A_get))
        ELSE LET username == Get(r.val, K_username, JNull)
                 password == Get(r.val, K_password, JNull)
                 raw == Get(r.val, K_body, JStr(<<>>))
             IN  IF raw.t # "str" THEN Throw(AttributeError(raw, A_strip))
                 ELSE LET body == Strip(raw.v)
                      IN  IF ~Truthy(username) \/ ~Truthy(password) \/ body = <<>>
                          THEN Reject
                          ELSE Forward(post_new_message(username, password, JStr(body)))

\* api_login, from req.json() to the call of login_user.
LoginTry(b) ==
    LET r == ReqJson(b)
    IN  IF ~r.ok THEN Throw(JSONDecodeError)
        ELSE IF r.val.t # "obj" THEN Throw(AttributeError(r.val, A_get))
        ELSE Forward(login_user(Get(r.val, K_username, JNull),
                                Get(r.val, K_password, JNull)))

\* api_register, from req.json() to the call of register_user.
RegisterTry(b) ==
    LET r == ReqJson(b)
    IN  IF ~r.ok THEN Throw(JSONDecodeError)
        ELSE IF r.val.t # "obj" THEN Throw(AttributeError(r.val, A_get))
        ELSE Forward(register_user(Get(r.val, K_username, JNull),
                                   Get(r.val, K_password, JNull)))

(***************************************************************************)
(* The requests in flight                                                  *)
(***************************************************************************)

VARIABLES
    pc,          \* where each request is in its handler
    op,          \* the route it came in on
    reqHeaders,  \* its proxy headers and socket peer
    reqBody,     \* its body, in bytes
    calls,       \* the outbound calls issued for it, in order
    reply,       \* what came back from the upstream for it
    outcome,     \* what the upstream call, or the try block, ended with
    sent,        \* the responses sent to the browser for it, in order
    trail        \* the positions it has passed, in order

vars == <<pc, op, reqHeaders, reqBody, calls, reply, outcome, sent, trail>>

Outcomes == {"Success", "HTTPError", "NetworkError", "UnexpectedError"}

\* The upstream's part of a call: nothing yet, a response, or a failure.
NoReply == [kind |-> "none", resp |-> NoResp, exc |-> NoExc]
Response(r) == [kind |-> "response", resp |-> r, exc |-> NoExc]
Failure(e) == [kind |-> "failure", resp |-> NoResp, exc |-> e]

NoHeaders == [xoci |-> <<>>, xff |-> <<>>, peer |-> <<>>]

Init ==
    /\ pc = [i \in Requests |-> "Idle"]
    /\ op = [i \in Requests |-> "list_posts"]
    /\ reqHeaders = [i \in Requests |-> NoHeaders]
    /\ reqBody = [i \in Requests |-> <<>>]
    /\ calls = [i \in Requests |-> <<>>]
    /\ reply = [i \in Requests |-> NoReply]
    /\ outcome = [i \in Requests |-> NoOutcome]
    /\ sent = [i \in Requests |-> <<>>]
    /\ trail = [i \in Requests |-> <<>>]

\* sync() called on the event loop itself: a call in flight holds the loop.
LoopHeldBy_blocking(i) == {j \in Requests \ {i} : pc[j] = "Forwarding"}

\* run_in_threadpool(sync): the blocking requests call runs on a worker
\* thread, so the calls in flight of other requests never hold the event
\* loop against request i.
LoopHeldBy(i) == {}

Goto(i, p) ==
    /\ pc' = [pc EXCEPT ![i] = p]
    /\ trail' = [trail EXCEPT ![i] = Append(@, p)]

\* The server accepts a request and routes it to its handler.
Receive(i, o, h, b) ==
    /\ pc[i] = "Idle"
    /\ LoopHeldBy(i) = {}
    /\ op' = [op EXCEPT ![i] = o]
    /\ reqHeaders' = [reqHeaders EXCEPT ![i] = h]
    /\ reqBody' = [reqBody EXCEPT ![i] = b]
    /\ Goto(i, "Received")
    /\ UNCHANGED <<calls, reply, outcome, sent>>

\* api_get_posts up to its await: it takes no input and calls at once.
api_get_posts(i) ==
    /\ pc[i] = "Received"
    /\ op[i] = "list_posts"
    /\ LoopHeldBy(i) = {}
    /\ calls' = [calls EXCEPT ![i] = Append(@, fetch_bbs_posts)]
    /\ Goto(i, "Forwarding")
    /\ UNCHANGED <<op, reqHeaders, reqBody, reply, outcome, sent>>

\* The three POST handlers enter their try block and await req.json().
AwaitJson(i) ==
    /\ pc[i] = "Received"
    /\ op[i] # "list_posts"
    /\ LoopHeldBy(i) = {}
    /\ Goto(i, "Validating")
    /\ UNCHANGED <<op, reqHeaders, reqBody, calls, reply, outcome, sent>>

\* The try block runs to its await, its return or its raise.
RunTry(i, t) ==
    /\ LoopHeldBy(i) = {}
    /\ CASE t.kind = "call" ->
              /\ calls' = [calls EXCEPT ![i] = @ \o t.call]
              /\ Goto(i, "Forwarding")
              /\ UNCHANGED <<outcome, sent>>
         [] t.kind = "reject" ->
              /\ sent' = [sent EXCEPT ![i] = Append(@, RequiredResponse)]
              /\ Goto(i, "Responded")
              /\ UNCHANGED <<calls, outcome>>
         [] t.kind = "raise" ->
              /\ outcome' = [outcome EXCEPT ![i] = Raised(t.exc)]
              /\ Goto(i, "UnexpectedError")
              /\ UNCHANGED <<calls, sent>>
    /\ UNCHANGED <<op, reqHeaders, reqBody, reply>>

api_post_message(i) ==
    /\ pc[i] = "Validating"
    /\ op[i] = "create_post"
    /\ RunTry(i, PostMessageTry(reqBody[i]))

api_login(i) ==
    /\ pc[i] = "Validating"
    /\ op[i] = "login"
    /\ RunTry(i, LoginTry(reqBody[i]))

api_register(i) ==
    /\ pc[i] = "Validating"
    /\ op[i] = "register"
    /\ RunTry(i, RegisterTry(reqBody[i]))

\* The upstream answers r and sync() finishes on its worker thread.
UpstreamAnswers(i, r) ==
    /\ pc[i] = "Forwarding"
    /\ reply' = [reply EXCEPT ![i] = Response(r)]
    /\ outcome' = [outcome EXCEPT ![i] = sync(r)]
    /\ Goto(i, CASE sync(r).kind = "json" -> "Success"
                 [] sync(r).kind = "http_error" -> "HTTPError"
                 [] OTHER -> "UnexpectedError")
    /\ UNCHANGED <<op, reqHeaders, reqBody, calls, sent>>

\* The call is issued again when it fails.
UpstreamFails_retry(i, e) ==
    /\ pc[i] = "Forwarding"
    /\ Len(calls[i]) < 3
    /\ calls' = [calls EXCEPT ![i] = Append(@, @[Len(@)])]
    /\ UNCHANGED <<pc, op, reqHeaders, reqBody, reply, outcome, sent, trail>>

\* requests raises e instead of returning a response: the exception leaves
\* sync() and the awaiting handler; nothing issues the call again.
UpstreamFails(i, e) ==
    /\ pc[i] = "Forwarding"
    /\ reply' = [reply EXCEPT ![i] = Failure(e)]
    /\ outcome' = [outcome EXCEPT ![i] = Raised(e)]
    /\ Goto(i, IF e.kind \in NetworkKinds THEN "NetworkError" ELSE "UnexpectedError")
    /\ UNCHANGED <<op, reqHeaders, reqBody, calls, sent>>

\* The response goes out and the handler stays where it was.
Respond_stay(i) ==
    /\ pc[i] \in Outcomes
    /\ Len(sent[i]) < 3
    /\ sent' = [sent EXCEPT ![i] = Append(@, Translate(outcome[i]))]
    /\ UNCHANGED <<pc, op, reqHeaders, reqBody, calls, reply, outcome, trail>>

\* The handler returns, from its try block or from an except clause.
Respond(i) ==
    /\ pc[i] \in Outcomes
    /\ LoopHeldBy(i) = {}
    /\ sent' = [sent EXCEPT ![i] = Append(@, Translate(outcome[i]))]
    /\ Goto(i, "Responded")
    /\ UNCHANGED <<op, reqHeaders, reqBody, calls, reply, outcome>>

\* What a received request does next, the upstream's part included.
Step(i) ==
    \/ api_get_posts(i)
    \/ AwaitJson(i)
    \/ api_post_message(i)
    \/ api_login(i)
    \/ api_register(i)
    \/ \E r \in UpstreamResponses : UpstreamAnswers(i, r)
    \/ \E e \in UpstreamFailures : UpstreamFails(i, e)
    \/ Respond(i)

\* One request, every input.
Next ==
    \/ \E i \in Lone, o \in Ops, h \in InHeaders :
           \E b \in BodiesFor(o) : Receive(i, o, h, b)
    \/ \E i \in Lone : Step(i)

Spec == Init /\ [][Next]_vars

\* The event loop runs every handler that can run, and the upstream call
\* returns or times out (MAX_API_WAIT_TIME).
FairSpec == Spec /\ \A i \in Lone : WF_vars(Step(i))

\* Concurrent requests, a few inputs each.
ConcBodies(o) ==
    CASE o = "list_posts" -> {<<>>}
      [] o = "create_post" ->
             {EncodeUtf8(Dumps(Payload(<<JStr(T_u)>>, <<JStr(T_p)>>, <<JStr(T_hi)>>))),
              EncodeUtf8(Dumps(Payload(<<JStr(T_u)>>, <<JStr(T_p)>>, <<JStr(<<32, 32>>)>>)))}
      [] OTHER ->
             {EncodeUtf8(Dumps(Payload(<<JStr(T_u)>>, <<JStr(T_p)>>, <<>>)))}

ConcResponses ==
    {[status |-> 200, encoding |-> "utf-8",
      content |-> <<123, 34, 111, 107, 34, 58, 49, 125>>],
     [status |-> 404, encoding |-> "utf-8",
      content |-> <<78, 111, 116, 32, 70, 111, 117, 110, 100>>]}

ConcFailures == {e \in UpstreamFailures : e.kind = "Timeout"}

StepConc(i) ==
    \/ api_get_posts(i)
    \/ AwaitJson(i)
    \/ api_post_message(i)
    \/ api_login(i)
    \/ api_register(i)
    \/ \E r \in ConcResponses : UpstreamAnswers(i, r)
    \/ \E e \in ConcFailures : UpstreamFails(i, e)
    \/ Respond(i)

NextConc ==
    \/ \E i \in Requests, o \in Ops :
           \E b \in ConcBodies(o) : Receive(i, o, NoHeaders, b)
    \/ \E i \in Requests : StepConc(i)

SpecConc == Init /\ [][NextConc]_vars

(***************************************************************************)
(* Properties                                                              *)
(***************************************************************************)

Responded(i) == pc[i] = "Responded"

\* The upstream answered request i with a response.
Answered(i) == reply[i].kind = "response"

Is2xx(st) == st >= 200 /\ st < 300

Range(f) == {f[n] : n \in DOMAIN f}

Contains(hay, needle) ==
    \E n \in 0..(Len(hay) - Len(needle)) : SubSeq(hay, n + 1, n + Len(needle)) = needle

\* The body is a well-formed JSON object with a string under "detail".
HasDetail(bytes) ==
    LET j == ParseJson(DecodeUtf8(bytes))
    IN  j.ok /\ HasKey(j.val, K_detail) /\ Lookup(j.val, K_detail).t = "str"

DetailOf(bytes) == Lookup(ParseJson(DecodeUtf8(bytes)).val, K_detail).v

C2_Network503 ==
    \A i \in Requests :
        (Responded(i) /\ reply[i].kind = "failure"
                      /\ reply[i].exc.kind \in NetworkKinds)
            => /\ Len(sent[i]) = 1
               /\ sent[i][1].status = 503
               /\ HasDetail(sent[i][1].body)
               /\ Contains(DetailOf(sent[i][1].body), reply[i].exc.text)

UnicodeWhitespace ==
    {9, 10, 11, 12, 13, 32, 133, 160, 5760, 8232, 8233, 8239, 8287, 12288}
    \cup (8192..8202)

\* The request body is a JSON object whose body field is absent or a string
\* of whitespace only.
BlankBody(i) ==
    LET r == ReqJson(reqBody[i])
    IN  /\ r.ok /\ r.val.t = "obj"
        /\ HasKey(r.val, K_body)
              => /\ Lookup(r.val, K_body).t = "str"
                 /\ Range(Lookup(r.val, K_body).v) \subseteq UnicodeWhitespace

\* C4: a post-creation request whose body field is absent, empty or only
\* whitespace is answered 400, whatever username and password are.
C4_BlankBody400 ==
    \A i \in Requests :
        (op[i] = "create_post" /\ BlankBody(i))
            => /\ pc[i] \in {"Received", "Validating", "Responded"}
               /\ Responded(i) => sent[i][1].status = 400

C4_Witness ==
    \E i \in Requests :
        /\ op[i] = "create_post" /\ Responded(i) /\ BlankBody(i)
        /\ Get(ReqJson(reqBody[i]).val, K_body, JNull) = JStr(<<9, 12288, 10>>)
        /\ Get(ReqJson(reqBody[i]).val, K_username, JNull) = JStr(T_u)
        /\ Get(ReqJson(reqBody[i]).val, K_password, JNull) = JStr(T_p)
        /\ sent[i][1].status = 400

\* The client address as C5 resolves it.
ClientAddress(h) ==
    IF h.xoci # <<>> THEN h.xoci[1]
    ELSE IF h.xff # <<>> THEN h.xff[1]
    ELSE IF h.peer # <<>> THEN h.peer[1]
    ELSE "unknown"

\* C5 as claimed: the outbound call of a post creation carries a header with
\* the client address (X-Original-Client-IP, else the first X-Forwarded-For
\* entry, else the peer, else "unknown"), and no other call carries one.
C5_IdentityHeader ==
    \A i \in Requests : \A n \in 1..Len(calls[i]) :
        IF op[i] = "create_post"
        THEN \E h \in DOMAIN calls[i][n].headers \ {"User-Agent"} :
                 calls[i][n].headers[h] = ClientAddress(reqHeaders[i])
        ELSE DOMAIN calls[i][n].headers = {"User-Agent"}

\* C6: no retries: at most one outbound call is issued for a request, and
\* once its call or its try block has ended, no call is issued for it.
C6_NoRetry ==
    /\ [](\A i \in Requests : Len(calls[i]) <= 1)
    /\ [][\A i \in Requests :
              pc[i] \in Outcomes \cup {"Responded"} => calls'[i] = calls[i]]_vars

C6_Witness ==
    \E i \in Requests :
        /\ Responded(i) /\ reply[i].kind = "failure"
        /\ Len(calls[i]) = 1 /\ Len(sent[i]) = 1

OutcomesPassed(i) == {n \in 1..Len(trail[i]) : trail[i][n] \in Outcomes}

\* C7 as claimed: a request responds once, having passed Validating and
\* exactly one of Success, HTTPError, NetworkError, UnexpectedError.
C7_FourOutcomes ==
    \A i \in Requests :
        Responded(i)
            => /\ Len(sent[i]) = 1
               /\ Cardinality(OutcomesPassed(i)) = 1
               /\ "Validating" \in Range(trail[i])

\* A post creation turned down by the handler itself: 400, no call.
LocallyRejected(i) ==
    /\ op[i] = "create_post"
    /\ trail[i] = <<"Received", "Validating", "Responded">>
    /\ calls[i] = <<>>
    /\ sent[i] = <<RequiredResponse>>

\* C7 amended: every received request eventually responds, exactly once; it
\* passes exactly one of the four outcomes, or is a post creation answered
\* 400 by the handler's own validation, which passes none; the POST routes
\* pass Validating first, and list-posts, which has no input, does not.
C7_RespondsOnce ==
    /\ [](\A i \in Requests :
             /\ Len(sent[i]) = (IF Responded(i) THEN 1 ELSE 0)
             /\ Cardinality(OutcomesPassed(i)) <= 1
             /\ Responded(i)
                   => /\ (Cardinality(OutcomesPassed(i)) = 1) # LocallyRejected(i)
                      /\ ("Validating" \in Range(trail[i])) = (op[i] # "list_posts"))
    /\ \A i \in Lone : (pc[i] = "Received") ~> Responded(i)

C7_Witness ==
    \E i \in Requests : Responded(i) /\ LocallyRejected(i)

\* C8 as claimed, for the failure bodies the proxy writes itself (validation,
\* network and unexpected errors; an upstream error body is passed through
\* as it is, see C1): each is a well-formed JSON object with a detail
\* string, whatever the error text.
C8_FailureHasDetail ==
    \A i \in Requests :
        (Responded(i) /\ outcome[i].kind # "http_error" /\ sent[i][1].status >= 400)
            => HasDetail(sent[i][1].body)

\* Every step of request i its handler could take now.
HandlerStep(i) ==
    \/ api_get_posts(i)
    \/ AwaitJson(i)
    \/ api_post_message(i)
    \/ api_login(i)
    \/ api_register(i)
    \/ Respond(i)

MissingOrEmpty(d, k) ==
    \/ ~HasKey(d, k)
    \/ Lookup(d, k) \in {JNull, JStr(<<>>)}

\* C10 as claimed: a post creation issues its call only if username,
\* password and the trimmed body are all present and non-empty, the call
\* carrying them (the body trimmed); when one of them is missing or empty it
\* ends with the local 400 and no call.
C10_PostForwardsOnlyValid ==
    \A i \in Requests :
        LET r == ReqJson(reqBody[i])
        IN  (op[i] = "create_post" /\ r.ok /\ r.val.t = "obj")
               => /\ calls[i] # <<>>
                     => /\ ~MissingOrEmpty(r.val, K_username)
                        /\ ~MissingOrEmpty(r.val, K_password)
                        /\ ~MissingOrEmpty(r.val, K_body)
                        /\ calls[i][1].json
                              = JObj(<<<<K_username, Lookup(r.val, K_username)>>,
                                       <<K_password, Lookup(r.val, K_password)>>,
                                       <<K_body, JStr(Strip(Lookup(r.val, K_body).v))>>>>)
                  /\ (Responded(i)
                      /\ \E k \in {K_username, K_password, K_body} :
                             MissingOrEmpty(r.val, k))
                        => sent[i][1].status = 400 /\ calls[i] = <<>>

====
